---- MODULE Spec2Model ----
(***************************************************************************)
(* Model of scripts/portainer-automation.py: the PortainerClient, the      *)
(* three commands (list, deploy, delete) and main.  The remote Portainer   *)
(* server is the environment: its endpoint list, its stack registry and    *)
(* the answer it gives to every request.                                   *)
(***************************************************************************)
EXTENDS Integers, Sequences, FiniteSets, TLC

\* ------------------------------------------------------------------ bounds
MaxEndpoints == 2      \* longest endpoint list the server returns
MaxStacks    == 2      \* longest initial stack registry
MaxServices  == 2      \* longest service list one poll returns
MaxReplicas  == 2      \* largest configured replica count
MaxRunning   == 1      \* largest observed running-task count
MaxTimeout   == 11     \* largest timeout handed to validate_deployment directly
MaxLatency   == 1      \* longest time one service poll takes
MaxJitter    == 1      \* longest oversleep of one time.sleep(5)
MaxRuns      == 2      \* invocations of the program (calls of a method) in sequence

\* ------------------------------------------------------- program constants
DefaultTimeout == 120  \* validate_deployment(..., timeout: int = 120)
SleepInterval  == 5    \* time.sleep(5)
DockerType     == 1    \* ep.get('Type') in [1, 2]
SwarmType      == 2

Procs == {"A", "B"}

\* Python's None for an optional string; `if endpoint_name:` is false for it.
None == ""

EndpointNames == {"prod", "dev"}
EndpointTypes == {DockerType, SwarmType, 3}
StackNames    == {"app", "db"}

Min(S) == CHOOSE x \in S : \A y \in S : x <= y

\* Sequences over S of length at most n.
SeqsUpTo(S, n) == UNION {[1..k -> S] : k \in 0..n}

\* ------------------------------------------------------- the remote's data
\* GET /api/endpoints: the server's environments.  Identifiers are unique;
\* names and types are whatever the server holds.
Endpoint == [Id : 1..MaxEndpoints, Name : EndpointNames, Type : EndpointTypes]

EndpointLists ==
    {eps \in SeqsUpTo(Endpoint, MaxEndpoints) :
        \A i, j \in 1..Len(eps) : i # j => eps[i].Id # eps[j].Id}

\* GET /api/stacks: one entry of the registry as cmd_deploy and cmd_delete
\* read it (Id, Name, EndpointId).
StackIds == 1..(MaxStacks + MaxRuns)
Stack    == [Id : StackIds, Name : StackNames, EndpointId : 1..MaxEndpoints]

\* The registries the program may find: identifiers ascending from 1, as the
\* server assigns them.
StackLists ==
    {sts \in SeqsUpTo(Stack, MaxStacks) : \A i \in 1..Len(sts) : sts[i].Id = i}

\* GET .../docker/services: one service as validate_deployment reads it.
\*   Replicated   : 'Replicated' in svc['Spec']['Mode']
\*   Replicas     : the replica count found on the service (read only when
\*                  the mode is replicated; absent reads as 0)
\*   RunningTasks : svc['ServiceStatus']['RunningTasks'] (absent reads as 0)
Service == [Replicated : BOOLEAN, Replicas : 0..MaxReplicas,
            RunningTasks : 0..MaxRunning]

ServiceLists == SeqsUpTo(Service, MaxServices)

\* ------------------------------------------------------------ pure helpers
\* get_endpoint_id, lines 105-109: the first endpoint whose Name matches.
RECURSIVE ScanByName(_, _, _)
ScanByName(eps, endpoint_name, i) ==
    IF i > Len(eps) THEN [raised |-> TRUE, value |-> 0, message |-> "NotFound"]
    ELSE IF eps[i].Name = endpoint_name
         THEN [raised |-> FALSE, value |-> eps[i].Id, message |-> ""]
         ELSE ScanByName(eps, endpoint_name, i + 1)

\* get_endpoint_id, line 113: Docker or Swarm.
QualifiesMutEq2(ep) == ep.Type = SwarmType
Qualifies(ep) == ep.Type \in {DockerType, SwarmType}

\* get_endpoint_id, lines 112-116: the first Docker or Swarm endpoint.
RECURSIVE ScanDefault(_, _)
ScanDefault(eps, i) ==
    IF i > Len(eps) THEN [raised |-> TRUE, value |-> 0, message |-> "NoValid"]
    ELSE IF Qualifies(eps[i])
         THEN [raised |-> FALSE, value |-> eps[i].Id, message |-> ""]
         ELSE ScanDefault(eps, i + 1)

get_endpoint_id_MutFallback(eps, endpoint_name) ==
    IF endpoint_name # None /\ ~ ScanByName(eps, endpoint_name, 1).raised
    THEN ScanByName(eps, endpoint_name, 1)
    ELSE ScanDefault(eps, 1)
\* PortainerClient.get_endpoint_id over the list get_endpoints returned.
get_endpoint_id(eps, endpoint_name) ==
    IF endpoint_name # None
    THEN ScanByName(eps, endpoint_name, 1)
    ELSE ScanDefault(eps, 1)

\* cmd_delete, lines 420-421: the first stack with the name.
RECURSIVE ScanByStackName(_, _, _)
ScanByStackName(sts, stack_name, i) ==
    IF i > Len(sts) THEN << >>
    ELSE IF sts[i].Name = stack_name
         THEN << sts[i] >>
         ELSE ScanByStackName(sts, stack_name, i + 1)

\* ScanExisting reading the endpoint under a key the entries do not carry
\* (stack.get('EndpointID') is None): no entry ever matches.
ScanExistingMutKey(sts, stack_name, endpoint_id, i) == << >>

\* ScanExisting comparing the name alone.
ScanExistingMutNameOnly(sts, stack_name, endpoint_id, i) ==
    ScanByStackName(sts, stack_name, i)

\* cmd_deploy, lines 371-375: the first stack with the name on the endpoint;
\* << >> is None, << stack >> the stack found.
RECURSIVE ScanExisting(_, _, _, _)
ScanExisting(sts, stack_name, endpoint_id, i) ==
    IF i > Len(sts) THEN << >>
    ELSE IF sts[i].Name = stack_name /\ sts[i].EndpointId = endpoint_id
         THEN << sts[i] >>
         ELSE ScanExisting(sts, stack_name, endpoint_id, i + 1)

\* A --env argument is a string, here the sequence of its characters.
\* '=' in env
HasEq(env) == \E i \in 1..Len(env) : env[i] = "="

\* env.split('=', 1): the text before and after the first '='.
SplitEq(env) ==
    LET k == Min({i \in 1..Len(env) : env[i] = "="})
    IN  [name |-> SubSeq(env, 1, k - 1), value |-> SubSeq(env, k + 1, Len(env))]

\* cmd_deploy, lines 355-360: arguments without '=' are skipped.
RECURSIVE ParseEnv(_)
ParseEnv(envs) ==
    IF envs = << >> THEN << >>
    ELSE (IF HasEq(Head(envs)) THEN << SplitEq(Head(envs)) >> ELSE << >>)
         \o ParseEnv(Tail(envs))

\* validate_deployment, lines 297-312: what one service does to all_healthy.
ReplicatedHealthy(svc) == ~ (svc.RunningTasks < svc.Replicas)

GlobalHealthyMutDesired(svc) == ~ (svc.RunningTasks < svc.Replicas)
GlobalHealthy(svc) == ~ (svc.RunningTasks = 0)

ServiceHealthy(svc) ==
    IF svc.Replicated THEN ReplicatedHealthy(svc) ELSE GlobalHealthy(svc)

\* validate_deployment, lines 289-312: the loop over the services, carrying
\* all_healthy.
RECURSIVE AllHealthyMutLast(_, _, _)
AllHealthyMutLast(services, i, all_healthy) ==
    IF i > Len(services) THEN all_healthy
    ELSE AllHealthyMutLast(services, i + 1, ServiceHealthy(services[i]))
RECURSIVE AllHealthyFrom(_, _, _)
AllHealthyFrom(services, i, all_healthy) ==
    IF i > Len(services) THEN all_healthy
    ELSE AllHealthyFrom(services, i + 1,
                        IF ServiceHealthy(services[i]) THEN all_healthy ELSE FALSE)

AllHealthy(services) == AllHealthyFrom(services, 1, TRUE)

\* ------------------------------------------------------------------- state
VARIABLES
    endpoints,   \* the server's endpoint list (read-only for the program)
    stacks,      \* the server's stack registry, in list order
    next_id,     \* the identifier the server gives the next created stack
    inv,         \* per process: the running invocation (client, locals, pc)
    history,     \* create/update/delete requests the server has answered,
                 \* over all invocations, in order
    runs         \* invocations started so far

vars == << endpoints, stacks, next_id, inv, history, runs >>

\* What main's argument parser hands to the commands.
Answers     == {"Y", "n"}

NoArgs == [command |-> "", stack_name |-> "", endpoint |-> None,
           compose_exists |-> FALSE, compose_content |-> "", env |-> << >>,
           no_validate |-> FALSE, yes |-> FALSE, answer |-> ""]

NoCommandArgs == {NoArgs}
ListArgs   == {[NoArgs EXCEPT !.command = "list"]}
\* The compose file's text with the --env arguments given beside it.
Descriptors ==
    { [content |-> "version: 1", env |-> << >>],
      [content |-> "version: 2",
       env |-> << << "D" >>, << "K", "=", "a", "=", "b" >> >>] }

DeployArgs ==
    {[NoArgs EXCEPT !.command = "deploy", !.stack_name = n, !.endpoint = e,
                    !.compose_exists = TRUE, !.compose_content = d.content,
                    !.env = d.env, !.no_validate = nv] :
        n \in StackNames, e \in {None} \cup EndpointNames, d \in Descriptors,
        nv \in BOOLEAN}
    \cup
    {[NoArgs EXCEPT !.command = "deploy", !.stack_name = n] : n \in StackNames}
DeleteArgs ==
    {[NoArgs EXCEPT !.command = "delete", !.stack_name = n, !.endpoint = e,
                    !.yes = TRUE] :
        n \in StackNames, e \in {None} \cup EndpointNames}
    \cup
    {[NoArgs EXCEPT !.command = "delete", !.stack_name = n, !.endpoint = e,
                    !.answer = a] :
        n \in StackNames, e \in {None} \cup EndpointNames, a \in Answers}

AllArgs == NoCommandArgs \cup ListArgs \cup DeployArgs \cup DeleteArgs

\* PortainerClient.__init__ and the locals of the commands before they run.
\*   authorization : the session's Authorization header, << >> when unset
\*   resolution    : what get_endpoint_id last did (returned value, or raised)
\*   listed        : the list client.list_stacks() returned to the command
\*   existing_stack: << >> is None
\*   verdict       : what validate_deployment returned ("none" before)
\*   exit_code     : the process exit status, -1 while running
\*   calls         : the requests this invocation has sent, in order
\*   answers       : what each of them got back, in the same order
\*   empties       : the polls of validate_deployment that found no service
IdleInv ==
    [pc |-> "idle", args |-> NoArgs, token |-> None, authorization |-> << >>,
     env_vars |-> << >>, resolution |-> [raised |-> FALSE, value |-> 0, message |-> ""],
     endpoint_id |-> 0, listed |-> << >>, existing_stack |-> << >>,
     swarm_id |-> "",
     branch |-> "none", timeout |-> 0, start_time |-> 0, now |-> 0,
     services |-> << >>, polls |-> 0, sleeps |-> 0, latency |-> 0,
     verdict |-> "none", exit_code |-> -1, error |-> "", calls |-> << >>,
     answers |-> << >>, empties |-> 0]

\* The servers the command-line runs talk to: no endpoint; one Swarm
\* endpoint; an unsupported environment before a Docker one; two endpoints
\* of one name, identifiers not in list order.
ProgEndpointLists ==
    { << >>,
      << [Id |-> 1, Name |-> "prod", Type |-> SwarmType] >>,
      << [Id |-> 1, Name |-> "prod", Type |-> 3],
         [Id |-> 2, Name |-> "dev", Type |-> DockerType] >>,
      << [Id |-> 2, Name |-> "prod", Type |-> SwarmType],
         [Id |-> 1, Name |-> "prod", Type |-> DockerType] >> }

Init ==
    /\ endpoints \in ProgEndpointLists
    /\ stacks \in StackLists
    /\ next_id = Len(stacks) + 1
    /\ inv = [p \in Procs |-> IdleInv]
    /\ history = << >>
    /\ runs = 0

\* A request as the session sends it: the operation, its arguments and the
\* Authorization header attached at that moment.
Request(p, op, extra) ==
    [op |-> op, authorization |-> inv[p].authorization, token |-> inv[p].token,
     args |-> extra]

\* The process ends: main returned `code`, or an exception nobody caught
\* ended the interpreter (exit status 1).
Exited(rec, code, error) ==
    [rec EXCEPT !.pc = "exit", !.exit_code = code, !.error = error]

\* main, lines 482-489: parse the arguments, build the client.
Start(p, a) ==
    /\ inv[p].pc \in {"idle", "exit"}
    /\ runs < MaxRuns
    /\ runs' = runs + 1
    /\ inv' = [inv EXCEPT ![p] =
                 IF a.command = ""
                 THEN Exited([IdleInv EXCEPT !.args = a], 1, "no command")
                 ELSE [IdleInv EXCEPT !.pc = "authenticate", !.args = a]]
    /\ UNCHANGED << endpoints, stacks, next_id, history >>

\* What POST /api/auth may answer: a failure of the request (no 2xx, no
\* connection, no JSON), a body with a jwt, a 2xx body without one.
AuthResponses == {"error", "jwt", "nojwt"}

\* main going on to the command whatever authenticate returned.
authenticateMutIgnore(p, r) ==
    /\ inv[p].pc = "authenticate"
    /\ LET sent == [inv[p] EXCEPT !.calls = Append(@, Request(p, "auth", << >>)),
                                     !.answers = Append(@, r)]
           jwt  == IF r = "jwt" THEN "jwt" ELSE None
           next == CASE inv[p].args.command = "list"   -> "list_stacks"
                     [] inv[p].args.command = "deploy" -> "cmd_deploy"
                     [] inv[p].args.command = "delete" -> "resolve"
                     [] OTHER -> "exit"
       IN  inv' = [inv EXCEPT ![p] =
                     IF r = "error"
                     THEN [sent EXCEPT !.pc = next]
                     ELSE [sent EXCEPT !.token = jwt,
                                       !.authorization = << "Bearer", jwt >>,
                                       !.pc = next]]
    /\ UNCHANGED << endpoints, stacks, next_id, history, runs >>

\* PortainerClient.authenticate and main, lines 492-501.
authenticate(p, r) ==
    /\ inv[p].pc = "authenticate"
    /\ LET sent == [inv[p] EXCEPT !.calls = Append(@, Request(p, "auth", << >>)),
                                     !.answers = Append(@, r)]
           jwt  == IF r = "jwt" THEN "jwt" ELSE None
           next == CASE inv[p].args.command = "list"   -> "list_stacks"
                     [] inv[p].args.command = "deploy" -> "cmd_deploy"
                     [] inv[p].args.command = "delete" -> "resolve"
                     [] OTHER -> "exit"
       IN  inv' = [inv EXCEPT ![p] =
                     IF r = "error"
                     THEN Exited(sent, 1, "authentication")
                     ELSE [sent EXCEPT !.token = jwt,
                                       !.authorization = << "Bearer", jwt >>,
                                       !.pc = next]]
    /\ UNCHANGED << endpoints, stacks, next_id, history, runs >>

\* How the server may answer a request after authentication: a 2xx, a status
\* raise_for_status turns into HTTPError, or a request that never completes
\* (ConnectionError, Timeout: a RequestException that is no HTTPError).
Outcomes == {"ok", "http", "conn"}
SwarmIds == {"", "swarm-a"}

\* A client method called on its own, outside main (args.command names it).
Direct(rec) == rec.args.command \in {"get_endpoint_id", "validate_deployment"}

\* An exception no handler of the program catches: it ends the interpreter
\* with status 1; out of a method called on its own it reaches the caller.
Uncaught(rec, exc) ==
    IF Direct(rec) THEN [rec EXCEPT !.pc = "raised", !.error = exc]
    ELSE Exited(rec, 1, "uncaught")

\* An update followed by the create path as well (`if` ... `if` for
\* `if` ... `else`).
AfterMutationMutBoth(rec) ==
    IF rec.branch = "update" /\ rec.calls[Len(rec.calls)].op = "update"
    THEN [rec EXCEPT !.pc = "swarm"]
    ELSE IF rec.args.no_validate THEN Exited(rec, 0, "")
    ELSE [rec EXCEPT !.pc = "validate", !.timeout = DefaultTimeout,
                     !.start_time = rec.now]

\* cmd_deploy, lines 397-402, once the mutation has answered: validate
\* unless --no-validate.  validate_deployment reads start_time on entry.
AfterMutation(rec) ==
    IF rec.args.no_validate THEN Exited(rec, 0, "")
    ELSE [rec EXCEPT !.pc = "validate", !.timeout = DefaultTimeout,
                     !.start_time = rec.now]

\* A handler that swallows the exception and goes on with the try body.
RaisedInTryMutSwallow(rec, r) == AfterMutation(rec)

\* An exception raised under cmd_deploy's try (lines 377-412): HTTPError is
\* caught and the command returns 1; any other is not caught.
RaisedInTry(rec, r) ==
    IF r = "http" /\ ~ Direct(rec) THEN Exited(rec, 1, "deployment failed")
    ELSE Uncaught(rec, r)

\* cmd_deploy, lines 346-360: the compose file and the --env arguments.
DeployReadCompose(p) ==
    /\ inv[p].pc = "cmd_deploy"
    /\ inv' = [inv EXCEPT ![p] =
                 IF ~ inv[p].args.compose_exists
                 THEN Exited(inv[p], 1, "compose file not found")
                 ELSE [inv[p] EXCEPT !.env_vars = ParseEnv(inv[p].args.env),
                                     !.pc = "resolve"]]
    /\ UNCHANGED << endpoints, stacks, next_id, history, runs >>

\* client.get_endpoint_id(args.endpoint): cmd_deploy lines 363-368 (ValueError
\* caught, return 1) and cmd_delete line 417 (nothing caught).
ResolveEndpoint(p, r) ==
    /\ inv[p].pc = "resolve"
    /\ LET sent == [inv[p] EXCEPT !.calls = Append(@, Request(p, "endpoints", << >>)),
                                     !.answers = Append(@, r)]
           res  == get_endpoint_id(endpoints, inv[p].args.endpoint)
       IN  inv' = [inv EXCEPT ![p] =
                     IF r # "ok" THEN Uncaught(sent, r)
                     ELSE IF res.raised
                     THEN (IF sent.args.command = "deploy"
                           THEN Exited([sent EXCEPT !.resolution = res], 1, "resolution")
                           ELSE Uncaught([sent EXCEPT !.resolution = res], "ValueError"))
                     ELSE [sent EXCEPT !.resolution = res,
                                       !.endpoint_id = res.value,
                                       !.pc = IF Direct(sent) THEN "returned"
                                              ELSE "list_stacks"]]
    /\ UNCHANGED << endpoints, stacks, next_id, history, runs >>

\* str.lower() on the answers input() may give.
Lower(a) == IF a = "Y" THEN "y" ELSE a

\* A deploy that drops the client's token once it has read the list.
DeployBranchMutClear(rec, sts) ==
    LET found == ScanExisting(sts, rec.args.stack_name, rec.endpoint_id, 1)
    IN  [rec EXCEPT !.listed = sts, !.existing_stack = found,
                    !.branch = IF found # << >> THEN "update" ELSE "create",
                    !.pc = IF found # << >> THEN "update" ELSE "swarm",
                    !.token = None]

\* cmd_deploy, lines 371-378: the branch taken for the list read.
DeployBranch(rec, sts) ==
    LET found == ScanExisting(sts, rec.args.stack_name, rec.endpoint_id, 1)
    IN  [rec EXCEPT !.listed = sts, !.existing_stack = found,
                    !.branch = IF found # << >> THEN "update" ELSE "create",
                    !.pc = IF found # << >> THEN "update" ELSE "swarm"]

\* cmd_delete, lines 420-431: the first stack with the name, the confirmation.
DeleteBranch(rec, sts) ==
    LET found == ScanByStackName(sts, rec.args.stack_name, 1)
        seen  == [rec EXCEPT !.listed = sts]
    IN  IF found = << >> THEN Exited(seen, 1, "stack not found")
        ELSE IF rec.args.yes \/ Lower(rec.args.answer) = "y"
        THEN [seen EXCEPT !.existing_stack = found, !.branch = "delete",
                          !.pc = "delete"]
        ELSE Exited(seen, 0, "cancelled")

\* client.list_stacks() in cmd_list (line 326), cmd_deploy (line 372) and
\* cmd_delete (line 420); none of the three catches its exceptions.
ListStacks(p, r) ==
    /\ inv[p].pc = "list_stacks"
    /\ LET sent == [inv[p] EXCEPT !.calls = Append(@, Request(p, "list_stacks", << >>)),
                                     !.answers = Append(@, r)]
       IN  inv' = [inv EXCEPT ![p] =
                     IF r # "ok" THEN Uncaught(sent, r)
                     ELSE CASE sent.args.command = "list"   -> Exited(sent, 0, "")
                            [] sent.args.command = "deploy" -> DeployBranch(sent, stacks)
                            [] OTHER                        -> DeleteBranch(sent, stacks)]
    /\ UNCHANGED << endpoints, stacks, next_id, history, runs >>

\* update_stack leaving prune to the server's default.
UpdateRequestMutNoPrune(rec) ==
    [stack_id |-> rec.existing_stack[1].Id, endpointId |-> rec.endpoint_id,
     stackFileContent |-> rec.args.compose_content, env |-> rec.env_vars,
     prune |-> FALSE]

\* The payload of update_stack, lines 216-223.
UpdateRequest(rec) ==
    [stack_id |-> rec.existing_stack[1].Id, endpointId |-> rec.endpoint_id,
     stackFileContent |-> rec.args.compose_content, env |-> rec.env_vars,
     prune |-> TRUE]

\* cmd_deploy, lines 378-386, and update_stack: PUT /api/stacks/{id}.  The
\* server answers 2xx only for a stack it holds.
UpdateStack(p, r) ==
    /\ inv[p].pc = "update"
    /\ r = "ok" => \E i \in 1..Len(stacks) : stacks[i].Id = inv[p].existing_stack[1].Id
    /\ LET sent == [inv[p] EXCEPT !.calls = Append(@, Request(p, "update", UpdateRequest(inv[p]))),
                                     !.answers = Append(@, r)]
       IN  /\ inv' = [inv EXCEPT ![p] =
                        IF r = "ok" THEN AfterMutation(sent) ELSE RaisedInTry(sent, r)]
           /\ history' = Append(history,
                           [op |-> "update", name |-> inv[p].args.stack_name,
                            endpoint |-> inv[p].endpoint_id,
                            id |-> inv[p].existing_stack[1].Id, ok |-> r = "ok"])
    /\ UNCHANGED << endpoints, stacks, next_id, runs >>

\* deploy_stack, line 179, and get_swarm_id: GET .../docker/swarm; a body
\* without ID reads as ''.
GetSwarmId(p, r, sid) ==
    /\ inv[p].pc = "swarm"
    /\ LET sent == [inv[p] EXCEPT !.calls = Append(@,
                       Request(p, "swarm", [endpoint_id |-> inv[p].endpoint_id,
                                            ok |-> r = "ok", ID |-> sid])),
                                     !.answers = Append(@, r)]
       IN  inv' = [inv EXCEPT ![p] =
                     IF r = "ok" THEN [sent EXCEPT !.swarm_id = sid, !.pc = "create"]
                     ELSE RaisedInTry(sent, r)]
    /\ UNCHANGED << endpoints, stacks, next_id, history, runs >>

\* A payload built without the looked-up cluster identity.
CreateRequestMutNoSwarm(rec) ==
    [name |-> rec.args.stack_name, endpointId |-> rec.endpoint_id,
     stackFileContent |-> rec.args.compose_content, swarmID |-> "",
     env |-> rec.env_vars]

\* The payload of deploy_stack, lines 181-189.
CreateRequest(rec) ==
    [name |-> rec.args.stack_name, endpointId |-> rec.endpoint_id,
     stackFileContent |-> rec.args.compose_content, swarmID |-> rec.swarm_id,
     env |-> rec.env_vars]

\* A create path that reads the registry again and gives up when the stack
\* has appeared since the list was read.
CreateStackMutRecheck(p, r) ==
    /\ inv[p].pc = "create"
    /\ r = "ok" => next_id \in StackIds
    /\ LET sent  == [inv[p] EXCEPT !.calls = Append(@, Request(p, "create", CreateRequest(inv[p]))),
                                     !.answers = Append(@, r)]
           stale == \E i \in 1..Len(stacks) :
                       /\ stacks[i].Name = inv[p].args.stack_name
                       /\ stacks[i].EndpointId = inv[p].endpoint_id
           lands == r = "ok" /\ ~ stale
       IN  /\ inv' = [inv EXCEPT ![p] =
                        IF stale THEN Exited(inv[p], 1, "stack exists")
                        ELSE IF r = "ok" THEN AfterMutation(sent) ELSE RaisedInTry(sent, r)]
           /\ history' = IF stale THEN history
                          ELSE Append(history,
                                 [op |-> "create", name |-> inv[p].args.stack_name,
                                  endpoint |-> inv[p].endpoint_id,
                                  id |-> IF r = "ok" THEN next_id ELSE 0, ok |-> r = "ok"])
           /\ stacks' = IF lands
                        THEN Append(stacks, [Id |-> next_id,
                                             Name |-> inv[p].args.stack_name,
                                             EndpointId |-> inv[p].endpoint_id])
                        ELSE stacks
           /\ next_id' = IF lands THEN next_id + 1 ELSE next_id
    /\ UNCHANGED << endpoints, runs >>

\* cmd_deploy, lines 387-395, and deploy_stack, lines 181-193: POST
\* /api/stacks/create/swarm/string.  A 2xx records the stack in the registry.
CreateStack(p, r) ==
    /\ inv[p].pc = "create"
    /\ r = "ok" => next_id \in StackIds
    /\ LET sent == [inv[p] EXCEPT !.calls = Append(@, Request(p, "create", CreateRequest(inv[p]))),
                                     !.answers = Append(@, r)]
       IN  /\ inv' = [inv EXCEPT ![p] =
                        IF r = "ok" THEN AfterMutation(sent) ELSE RaisedInTry(sent, r)]
           /\ history' = Append(history,
                           [op |-> "create", name |-> inv[p].args.stack_name,
                            endpoint |-> inv[p].endpoint_id,
                            id |-> IF r = "ok" THEN next_id ELSE 0, ok |-> r = "ok"])
           /\ stacks' = IF r = "ok"
                        THEN Append(stacks, [Id |-> next_id,
                                             Name |-> inv[p].args.stack_name,
                                             EndpointId |-> inv[p].endpoint_id])
                        ELSE stacks
           /\ next_id' = IF r = "ok" THEN next_id + 1 ELSE next_id
    /\ UNCHANGED << endpoints, runs >>

\* The registry without the stack `id`.
RECURSIVE Without(_, _)
Without(sts, id) ==
    IF sts = << >> THEN << >>
    ELSE (IF Head(sts).Id = id THEN << >> ELSE << Head(sts) >>) \o Without(Tail(sts), id)

\* cmd_delete, lines 422-425, and delete_stack: DELETE /api/stacks/{id}.
DeleteStack(p, r) ==
    /\ inv[p].pc = "delete"
    /\ LET id   == inv[p].existing_stack[1].Id
           sent == [inv[p] EXCEPT !.calls = Append(@,
                       Request(p, "delete", [stack_id |-> id,
                                             endpointId |-> inv[p].endpoint_id])),
                                     !.answers = Append(@, r)]
       IN  /\ inv' = [inv EXCEPT ![p] =
                        IF r = "ok" THEN Exited(sent, 0, "") ELSE Uncaught(sent, r)]
           /\ history' = Append(history,
                           [op |-> "delete", name |-> inv[p].args.stack_name,
                            endpoint |-> inv[p].endpoint_id, id |-> id, ok |-> r = "ok"])
           /\ stacks' = IF r = "ok" THEN Without(stacks, id) ELSE stacks
    /\ UNCHANGED << endpoints, next_id, runs >>

\* ---------------------------------------------------- validate_deployment
\* time.sleep(2) for time.sleep(5).
SleepMutShort(rec, j) ==
    [rec EXCEPT !.now = @ + 2 + j, !.sleeps = @ + 1, !.latency = @ + j]

\* time.sleep(5), lines 286 and 318: the clock moves on by the interval and
\* by however long the sleep overran.
Sleep(rec, j) ==
    [rec EXCEPT !.now = @ + SleepInterval + j, !.sleeps = @ + 1,
                !.latency = @ + j]

\* The loop test with <= for <.
InTimeMutLe(rec) == rec.now - rec.start_time <= rec.timeout

\* The loop test, line 281.
InTime(rec) == rec.now - rec.start_time < rec.timeout

\* The loop without the `if not services` test: an empty list runs the health
\* loop over nothing and all_healthy stays True.
validate_deploymentMutNoWait(p, svcs, d, j) ==
    /\ inv[p].pc = "validate"
    /\ InTime(inv[p])
    /\ LET polled == [inv[p] EXCEPT
                        !.calls = Append(@, Request(p, "services",
                                     [endpoint_id |-> inv[p].endpoint_id,
                                      namespace |-> inv[p].args.stack_name])),
                        !.answers = Append(@, "ok"),
                        !.polls = @ + 1, !.now = @ + d, !.latency = @ + d,
                        !.services = svcs,
                        !.empties = IF svcs = << >> THEN @ + 1 ELSE @]
       IN  inv' = [inv EXCEPT ![p] =
                     IF AllHealthy(svcs)
                     THEN [polled EXCEPT !.verdict = "true", !.pc = "validated"]
                     ELSE Sleep(polled, j)]
    /\ UNCHANGED << endpoints, stacks, next_id, history, runs >>

\* One iteration of the loop, lines 281-318, with a poll that answers 2xx
\* after d time units: no services yet, all healthy, or some not.
validate_deployment(p, svcs, d, j) ==
    /\ inv[p].pc = "validate"
    /\ InTime(inv[p])
    /\ LET polled == [inv[p] EXCEPT
                        !.calls = Append(@, Request(p, "services",
                                     [endpoint_id |-> inv[p].endpoint_id,
                                      namespace |-> inv[p].args.stack_name])),
                        !.answers = Append(@, "ok"),
                        !.polls = @ + 1, !.now = @ + d, !.latency = @ + d,
                        !.services = svcs,
                        !.empties = IF svcs = << >> THEN @ + 1 ELSE @]
       IN  inv' = [inv EXCEPT ![p] =
                     IF svcs = << >> THEN Sleep(polled, j)
                     ELSE IF AllHealthy(svcs)
                     THEN [polled EXCEPT !.verdict = "true", !.pc = "validated"]
                     ELSE Sleep(polled, j)]
    /\ UNCHANGED << endpoints, stacks, next_id, history, runs >>

\* One iteration whose poll fails: get_stack_services raises (line 262) and
\* validate_deployment lets it through to cmd_deploy's try.
ValidatePollFails(p, r) ==
    /\ inv[p].pc = "validate"
    /\ InTime(inv[p])
    /\ r # "ok"
    /\ LET polled == [inv[p] EXCEPT
                        !.calls = Append(@, Request(p, "services",
                                     [endpoint_id |-> inv[p].endpoint_id,
                                      namespace |-> inv[p].args.stack_name])),
                        !.answers = Append(@, r),
                        !.polls = @ + 1]
       IN  inv' = [inv EXCEPT ![p] = RaisedInTry(polled, r)]
    /\ UNCHANGED << endpoints, stacks, next_id, history, runs >>

\* The loop test fails, lines 320-321: return False.
ValidateTimeout(p) ==
    /\ inv[p].pc = "validate"
    /\ ~ InTime(inv[p])
    /\ inv' = [inv EXCEPT ![p].verdict = "false", ![p].pc = "validated"]
    /\ UNCHANGED << endpoints, stacks, next_id, history, runs >>

\* cmd_deploy returning 0 whatever validate_deployment said.
DeployReturnMutZero(p) ==
    /\ inv[p].pc = "validated"
    /\ inv[p].args.command = "deploy"
    /\ inv' = [inv EXCEPT ![p] = Exited(inv[p], 0, "")]
    /\ UNCHANGED << endpoints, stacks, next_id, history, runs >>

\* cmd_deploy, lines 398-402: the exit status after validation.
DeployReturn(p) ==
    /\ inv[p].pc = "validated"
    /\ inv[p].args.command = "deploy"
    /\ inv' = [inv EXCEPT ![p] =
                 Exited(inv[p], IF inv[p].verdict = "true" THEN 0 ELSE 1,
                        IF inv[p].verdict = "true" THEN "" ELSE "validation timeout")]
    /\ UNCHANGED << endpoints, stacks, next_id, history, runs >>

\* ------------------------------------------------------------ the program
\* One operator at the terminal, one invocation after the other.  The polls
\* of a command-line run answer after ProgLatencies time units with no
\* services, one healthy service or one starting service.
ProgLatencies == {55}

ProgServiceLists ==
    { << >>,
      << [Replicated |-> TRUE, Replicas |-> 1, RunningTasks |-> 1] >>,
      << [Replicated |-> TRUE, Replicas |-> 1, RunningTasks |-> 0] >> }

Next ==
    \E p \in {"A"} :
        \/ \E a \in AllArgs : Start(p, a)
        \/ \E r \in AuthResponses : authenticate(p, r)
        \/ DeployReadCompose(p)
        \/ \E r \in Outcomes : ResolveEndpoint(p, r)
        \/ \E r \in Outcomes : ListStacks(p, r)
        \/ \E r \in Outcomes : UpdateStack(p, r)
        \/ \E r \in Outcomes, sid \in SwarmIds : GetSwarmId(p, r, sid)
        \/ \E r \in Outcomes : CreateStack(p, r)
        \/ \E r \in Outcomes : DeleteStack(p, r)
        \/ \E svcs \in ProgServiceLists, d \in ProgLatencies :
               validate_deployment(p, svcs, d, 0)
        \/ \E r \in Outcomes : ValidatePollFails(p, r)
        \/ ValidateTimeout(p)
        \/ DeployReturn(p)

Spec == Init /\ [][Next]_vars

\* ------------------------------------- validate_deployment called directly
Timeouts == 0..MaxTimeout

InitValidate ==
    /\ endpoints = << >>
    /\ stacks = << >>
    /\ next_id = 1
    /\ history = << >>
    /\ runs = 0
    /\ \E t \in Timeouts, t0 \in {0, 7} :
         inv = [p \in Procs |->
                  IF p = "A"
                  THEN [IdleInv EXCEPT !.pc = "validate",
                                       !.args = [NoArgs EXCEPT !.command = "validate_deployment",
                                                               !.stack_name = "app"],
                                       !.token = "jwt",
                                       !.authorization = << "Bearer", "jwt" >>,
                                       !.endpoint_id = 1, !.timeout = t,
                                       !.start_time = t0, !.now = t0]
                  ELSE IdleInv]

NextValidate ==
    \E p \in {"A"} :
        \/ \E svcs \in ServiceLists, d \in 0..MaxLatency, j \in 0..MaxJitter :
               validate_deployment(p, svcs, d, j)
        \/ \E r \in Outcomes : ValidatePollFails(p, r)
        \/ ValidateTimeout(p)

SpecValidate == InitValidate /\ [][NextValidate]_vars

\* The interpreter keeps running the loop: a poll that can be made is made,
\* a return that is due happens.  The polls find no service, a healthy one
\* or a starting one, in any order.
NextValidateFair ==
    \E p \in {"A"} :
        \/ \E svcs \in ProgServiceLists, d \in 0..MaxLatency, j \in 0..MaxJitter :
               validate_deployment(p, svcs, d, j)
        \/ \E r \in Outcomes : ValidatePollFails(p, r)
        \/ ValidateTimeout(p)

SpecValidateFair ==
    InitValidate /\ [][NextValidateFair]_vars /\ WF_vars(NextValidateFair)

\* ----------------------------------------- get_endpoint_id called directly
\* A caller holding an authenticated client calls get_endpoint_id, and may
\* call it again; the server's endpoint list is any list.
NameArgs == {None} \cup EndpointNames

InitResolve ==
    /\ endpoints \in EndpointLists
    /\ stacks = << >>
    /\ next_id = 1
    /\ history = << >>
    /\ runs = 1
    /\ \E e \in NameArgs :
         inv = [p \in Procs |->
                  IF p = "A"
                  THEN [IdleInv EXCEPT !.pc = "resolve",
                                       !.args = [NoArgs EXCEPT !.command = "get_endpoint_id",
                                                               !.endpoint = e],
                                       !.token = "jwt",
                                       !.authorization = << "Bearer", "jwt" >>]
                  ELSE IdleInv]

\* The caller calls get_endpoint_id once more with the same argument.
ResolveAgain(p) ==
    /\ inv[p].pc \in {"returned", "raised"}
    /\ inv[p].args.command = "get_endpoint_id"
    /\ runs < MaxRuns + 1
    /\ runs' = runs + 1
    /\ inv' = [inv EXCEPT ![p].pc = "resolve", ![p].error = ""]
    /\ UNCHANGED << endpoints, stacks, next_id, history >>

NextResolve ==
    \E p \in {"A"} :
        \/ \E r \in Outcomes : ResolveEndpoint(p, r)
        \/ ResolveAgain(p)

SpecResolve == InitResolve /\ [][NextResolve]_vars

\* ------------------------------------------------ two invocations at once
\* Two operators (or two CI jobs) run `deploy --no-validate` at the same
\* time against one server; the processes share nothing but the server.
RaceArgs ==
    {[NoArgs EXCEPT !.command = "deploy", !.stack_name = n,
                    !.compose_exists = TRUE, !.compose_content = "version: 1",
                    !.no_validate = TRUE] : n \in StackNames}

InitRace ==
    /\ endpoints = << [Id |-> 1, Name |-> "prod", Type |-> SwarmType] >>
    /\ stacks \in StackLists
    /\ next_id = Len(stacks) + 1
    /\ inv = [p \in Procs |-> IdleInv]
    /\ history = << >>
    /\ runs = 0

NextRace ==
    \E p \in Procs :
        \/ \E a \in RaceArgs : Start(p, a)
        \/ \E r \in AuthResponses : authenticate(p, r)
        \/ DeployReadCompose(p)
        \/ \E r \in Outcomes : ResolveEndpoint(p, r)
        \/ \E r \in Outcomes : ListStacks(p, r)
        \/ \E r \in Outcomes : UpdateStack(p, r)
        \/ \E r \in Outcomes, sid \in SwarmIds : GetSwarmId(p, r, sid)
        \/ \E r \in Outcomes : CreateStack(p, r)

SpecRace == InitRace /\ [][NextRace]_vars

\* ================================================================== claims
\* The requests of process p with operation op, as indices into its calls.
CallsOf(p, op) == {i \in 1..Len(inv[p].calls) : inv[p].calls[i].op = op}

\* The indices of the entries of a stack list with the name on the endpoint.
Matches(sts, stack_name, endpoint_id) ==
    {i \in 1..Len(sts) : sts[i].Name = stack_name /\ sts[i].EndpointId = endpoint_id}

\* The deploy requests (create, update) the server has answered.
DeployRequests == {i \in 1..Len(history) : history[i].op \in {"create", "update"}}

SameKey(i, j) ==
    /\ history[i].name = history[j].name
    /\ history[i].endpoint = history[j].endpoint

\* Nothing but the program's own successful creates has changed the registry.
StableRegistry == \A i \in 1..Len(history) : history[i].op = "delete" => ~ history[i].ok

\* With a stable registry, the stacks it held before the first invocation.
CreatedIds == {history[i].id : i \in {k \in DeployRequests :
                                        history[k].op = "create" /\ history[k].ok}}
InitiallyPresent(name, endpoint) ==
    \E i \in 1..Len(stacks) :
        /\ stacks[i].Id \notin CreatedIds
        /\ stacks[i].Name = name
        /\ stacks[i].EndpointId = endpoint

\* C1: idempotent redeploy.  Over sequential deploy invocations against a
\* stable registry, once a create or update for a (name, endpoint) has
\* succeeded every later deploy request for it is an update; when the
\* registry initially has no such stack the first request for it is a create;
\* so at most one create for it ever succeeds, and when none failed exactly
\* one create call is issued for it.
C1_IdempotentRedeploy ==
    StableRegistry =>
        /\ \A i, j \in DeployRequests :
              (i < j /\ SameKey(i, j) /\ history[i].ok) => history[j].op = "update"
        /\ \A j \in DeployRequests :
              ( /\ ~ InitiallyPresent(history[j].name, history[j].endpoint)
                /\ \A i \in DeployRequests : (i < j /\ SameKey(i, j)) => ~ history[i].ok )
              => history[j].op = "create"
        /\ \A j \in DeployRequests :
              Cardinality({i \in DeployRequests :
                              /\ SameKey(i, j)
                              /\ history[i].op = "create"
                              /\ history[i].ok}) <= 1

\* A create followed, in the next invocation, by an update of the very stack
\* the create recorded.
C1_Witness ==
    /\ StableRegistry
    /\ Len(history) = 2
    /\ history[1].op = "create" /\ history[1].ok
    /\ history[2].op = "update" /\ history[2].ok
    /\ SameKey(1, 2)
    /\ history[2].id = history[1].id
    /\ runs = 2

\* C2: create-vs-update decision.  Once cmd_deploy has read the stack list it
\* takes the update branch iff the list holds an entry with the requested
\* name AND the resolved endpoint; otherwise it takes the create branch, and
\* the create call carries the requested name and the resolved endpoint id.
\* A branch issues only its own kind of mutation.
C2_CreateVsUpdate ==
    \A p \in Procs :
        inv[p].args.command = "deploy" =>
            /\ inv[p].branch # "none" =>
                  /\ inv[p].branch = "update"
                        <=> Matches(inv[p].listed, inv[p].args.stack_name,
                                    inv[p].endpoint_id) # {}
                  /\ inv[p].branch = "create"
                        <=> Matches(inv[p].listed, inv[p].args.stack_name,
                                    inv[p].endpoint_id) = {}
            /\ inv[p].branch = "none"
                  => CallsOf(p, "create") \cup CallsOf(p, "update") = {}
            /\ inv[p].branch = "update" => CallsOf(p, "create") = {}
            /\ inv[p].branch = "create" => CallsOf(p, "update") = {}
            /\ \A i \in CallsOf(p, "create") :
                  /\ inv[p].calls[i].args.name = inv[p].args.stack_name
                  /\ inv[p].calls[i].args.endpointId = inv[p].resolution.value
                  /\ ~ inv[p].resolution.raised

\* A create issued although the list holds the name on another endpoint and
\* another name on the resolved endpoint.
C2_Witness ==
    \E p \in Procs :
        /\ inv[p].branch = "create"
        /\ CallsOf(p, "create") # {}
        /\ \E i, j \in 1..Len(inv[p].listed) :
              /\ inv[p].listed[i].Name = inv[p].args.stack_name
              /\ inv[p].listed[i].EndpointId # inv[p].endpoint_id
              /\ inv[p].listed[j].Name # inv[p].args.stack_name
              /\ inv[p].listed[j].EndpointId = inv[p].endpoint_id

\* C3: update branch arguments.  Whenever cmd_deploy takes the update branch
\* it issues at most one update call, and that call carries the identifier
\* of the first matching stack in list order, the resolved endpoint id, the
\* new descriptor and env, and prune = true.
C3_UpdateArguments ==
    \A p \in Procs :
        /\ Cardinality(CallsOf(p, "update")) <= 1
        /\ \A i \in CallsOf(p, "update") :
              LET m == Matches(inv[p].listed, inv[p].args.stack_name,
                               inv[p].resolution.value)
                  a == inv[p].calls[i].args
              IN  /\ inv[p].branch = "update"
                  /\ m # {}
                  /\ a.stack_id = inv[p].listed[Min(m)].Id
                  /\ a.endpointId = inv[p].resolution.value
                  /\ a.stackFileContent = inv[p].args.compose_content
                  /\ a.env = inv[p].env_vars
                  /\ a.prune = TRUE

\* An update issued for a list holding two stacks with the name on the
\* endpoint: the first one is the one updated, with a non-empty env.
C3_Witness ==
    \E p \in Procs :
        /\ CallsOf(p, "update") # {}
        /\ Cardinality(Matches(inv[p].listed, inv[p].args.stack_name,
                               inv[p].endpoint_id)) = 2
        /\ inv[p].env_vars # << >>
        /\ inv[p].args.compose_content = "version: 2"

\* A service set whose observed state equals the desired one: every
\* replicated service runs exactly its replica count, every global service
\* runs on its nodes (at least one).
Converged(svcs) ==
    /\ svcs # << >>
    /\ \A i \in 1..Len(svcs) :
          IF svcs[i].Replicated THEN svcs[i].RunningTasks = svcs[i].Replicas
          ELSE svcs[i].RunningTasks >= 1

\* C4: health convergence.  For every timeout value, when every poll returns
\* a non-empty service set whose observed running tasks equal the desired
\* ones, validate_deployment returns true after exactly one poll and without
\* any sleep.  (A poll of a converged set ends the loop, so "every poll so
\* far was converged" is: no poll yet, or one poll and it was converged.)
C4_ConvergedFirstPoll ==
    \A p \in Procs :
        ( /\ inv[p].pc = "validated"
          /\ inv[p].polls = 0 \/ (inv[p].polls = 1 /\ Converged(inv[p].services)) )
        => (inv[p].verdict = "true" /\ inv[p].polls = 1 /\ inv[p].sleeps = 0)

\* C4 for the timeouts that let the loop start: a poll of a converged set
\* returns true at once, and with a positive timeout validate_deployment
\* does not return before its first poll.
C4_PositiveTimeout ==
    \A p \in Procs :
        /\ (inv[p].polls >= 1 /\ inv[p].pc # "raised" /\ Converged(inv[p].services))
              => (inv[p].verdict = "true" /\ inv[p].sleeps = inv[p].polls - 1)
        /\ (inv[p].pc = "validated" /\ inv[p].timeout > 0) => inv[p].polls >= 1

\* ceil(a / b) for b > 0.
CeilDiv(a, b) == (a + b - 1) \div b

\* C5: health timeout.  With remote calls taking zero time and sleeps of
\* exactly the interval, validate_deployment with timeout T returns false
\* only after exactly ceil(T/5) polls, at an elapsed time that is at least T
\* and less than T + 5; until then the elapsed time is 5 per poll.
C5_HealthTimeout ==
    \A p \in Procs :
        inv[p].latency = 0 =>
            /\ inv[p].pc = "validate"
                  => /\ inv[p].now - inv[p].start_time = SleepInterval * inv[p].polls
                     /\ inv[p].sleeps = inv[p].polls
            /\ (inv[p].pc = "validated" /\ inv[p].verdict = "false")
                  => /\ inv[p].polls = CeilDiv(inv[p].timeout, SleepInterval)
                     /\ inv[p].now - inv[p].start_time >= inv[p].timeout
                     /\ inv[p].now - inv[p].start_time < inv[p].timeout + SleepInterval

\* validate_deployment(timeout = 11) returning false after three polls, 15
\* time units after a start that was not at clock zero.
C5_Witness ==
    \E p \in Procs :
        /\ inv[p].pc = "validated" /\ inv[p].verdict = "false"
        /\ inv[p].latency = 0
        /\ inv[p].timeout = 11 /\ inv[p].polls = 3
        /\ inv[p].start_time = 7 /\ inv[p].now = 22
        /\ inv[p].services # << >>

\* C6: verdict soundness.  validate_deployment returns true only at a poll
\* whose service list is non-empty and in which every service is healthy,
\* a replicated service being healthy iff its running-task count is >= its
\* replica count; and a poll of such a list does return true.
C6_VerdictSoundness ==
    \A p \in Procs :
        LET svcs == inv[p].services
            ok(i) == IF svcs[i].Replicated
                     THEN svcs[i].RunningTasks >= svcs[i].Replicas
                     ELSE svcs[i].RunningTasks > 0
        IN  inv[p].verdict = "true"
                <=> ( /\ inv[p].polls >= 1
                      /\ inv[p].pc # "raised"
                      /\ svcs # << >>
                      /\ \A i \in 1..Len(svcs) : ok(i) )

\* A true verdict for two replicated services, one running more tasks than
\* configured; it came after an earlier poll that was not healthy.
C6_Witness ==
    \E p \in Procs :
        /\ inv[p].verdict = "true"
        /\ inv[p].polls = 2
        /\ Len(inv[p].services) = 2
        /\ inv[p].services[1].Replicated /\ inv[p].services[2].Replicated
        /\ inv[p].services[1].RunningTasks > inv[p].services[1].Replicas
        /\ inv[p].services[2].Replicas = 1

\* C7: global-mode classification.  A poll holding a global-mode service
\* with zero running tasks never returns true; a poll of global-mode
\* services each with one or more running tasks returns true, whatever
\* replica value the services carry.
C7_GlobalMode ==
    \A p \in Procs :
        LET svcs == inv[p].services
        IN  /\ inv[p].verdict = "true"
                  => \A i \in 1..Len(svcs) :
                        ~ svcs[i].Replicated => svcs[i].RunningTasks >= 1
            /\ ( /\ inv[p].polls >= 1 /\ inv[p].pc # "raised"
                 /\ svcs # << >>
                 /\ \A i \in 1..Len(svcs) :
                       ~ svcs[i].Replicated /\ svcs[i].RunningTasks >= 1 )
                  => inv[p].verdict = "true"

\* A true verdict for global services running fewer tasks than the replica
\* value found on them.
C7_Witness ==
    \E p \in Procs :
        /\ inv[p].verdict = "true"
        /\ Len(inv[p].services) = 2
        /\ \A i \in 1..2 :
              /\ ~ inv[p].services[i].Replicated
              /\ inv[p].services[i].Replicas > inv[p].services[i].RunningTasks

\* get_endpoint_id has answered (returned or raised) on a list it fetched.
Resolved(rec) == rec.resolution.raised \/ rec.resolution.value # 0

\* C8: name-not-found.  With a name given that matches no endpoint of the
\* list, get_endpoint_id raises the not-found error and returns nothing (not
\* the default endpoint); with a matching name it returns the id of the first
\* matching endpoint in list order.
C8_NamedResolution ==
    \A p \in Procs :
        LET name == inv[p].args.endpoint
            m    == {i \in 1..Len(endpoints) : endpoints[i].Name = name}
        IN  (name # None /\ Resolved(inv[p])) =>
                IF m = {}
                THEN /\ inv[p].resolution.raised
                     /\ inv[p].resolution.message = "NotFound"
                     /\ inv[p].endpoint_id = 0
                     /\ inv[p].pc # "returned"
                ELSE /\ ~ inv[p].resolution.raised
                     /\ inv[p].resolution.value = endpoints[Min(m)].Id
                     /\ inv[p].endpoint_id = endpoints[Min(m)].Id

\* Not-found raised for a name no endpoint has, on a list whose first
\* endpoint would have been the default.
C8_Witness ==
    \E p \in Procs :
        /\ inv[p].args.endpoint = "dev"
        /\ inv[p].pc = "raised"
        /\ inv[p].resolution.message = "NotFound"
        /\ Len(endpoints) = 2
        /\ endpoints[1].Type = SwarmType
        /\ \A i \in 1..2 : endpoints[i].Name = "prod"

\* What get_endpoint_id answers with no name, for the list as it is.
DefaultAnswer(rec) ==
    LET q == {i \in 1..Len(endpoints) :
                 endpoints[i].Type = DockerType \/ endpoints[i].Type = SwarmType}
    IN  IF q = {}
        THEN /\ rec.resolution.raised
             /\ rec.resolution.message = "NoValid"
             /\ rec.endpoint_id = 0
        ELSE /\ ~ rec.resolution.raised
             /\ rec.resolution.value = endpoints[Min(q)].Id
             /\ rec.endpoint_id = endpoints[Min(q)].Id

C10_NoCallWithoutToken ==
    \A p \in Procs :
        \A i \in 1..Len(inv[p].calls) :
            inv[p].calls[i].op # "auth" => inv[p].calls[i].token # None

\* An answer that makes the call fail: authenticate's caught exception, an
\* HTTPError out of raise_for_status, a request that never completed.
Failed(a) == a \in {"error", "http", "conn"}

\* Process p has sent a request `op` that was answered `a`.
Answered(p, op, a) == \E i \in CallsOf(p, op) : inv[p].answers[i] = a

\* C11: failure halts the pipeline.  In a deploy invocation a failed call
\* (authentication, endpoint list, stack list, swarm-id lookup, create,
\* update, service poll) is the last call of the invocation, a failed
\* resolution leaves the endpoint list as the last call, the invocation has
\* then ended with status 1, and a failed create or update is followed by no
\* service-status poll.
C11_FailureHalts ==
    \A p \in Procs :
        inv[p].args.command = "deploy" =>
            /\ Len(inv[p].answers) = Len(inv[p].calls)
            /\ \A i \in 1..Len(inv[p].calls) :
                  Failed(inv[p].answers[i]) => i = Len(inv[p].calls)
            /\ inv[p].resolution.raised
                  => inv[p].calls[Len(inv[p].calls)].op = "endpoints"
            /\ ( \/ inv[p].resolution.raised
                 \/ \E i \in 1..Len(inv[p].calls) : Failed(inv[p].answers[i]) )
                  => (inv[p].pc = "exit" /\ inv[p].exit_code = 1)
            /\ \A i \in CallsOf(p, "create") \cup CallsOf(p, "update") :
                  Failed(inv[p].answers[i]) => CallsOf(p, "services") = {}

\* A deploy with validation asked for whose update was refused: the update
\* is the fourth and last call.
C11_Witness ==
    \E p \in Procs :
        /\ inv[p].args.command = "deploy"
        /\ ~ inv[p].args.no_validate
        /\ Answered(p, "update", "http")
        /\ Len(inv[p].calls) = 4
        /\ inv[p].pc = "exit"

\* The create or update of process p that the server accepted.
MutationOk(p) == Answered(p, "create", "ok") \/ Answered(p, "update", "ok")

\* C12: exit code of deploy.  A finished deploy has status 0 or 1; it is 0
\* iff authentication, the descriptor read, the endpoint resolution, the
\* stack listing and the create/update all succeeded, no service poll
\* failed, and validation returned true or was opted out; a validation
\* timeout gives 1 although the mutation succeeded.
C12_DeployExitCode ==
    \A p \in Procs :
        (inv[p].args.command = "deploy" /\ inv[p].pc = "exit") =>
            /\ inv[p].exit_code \in {0, 1}
            /\ inv[p].exit_code = 0
                  <=> ( /\ \E i \in CallsOf(p, "auth") : ~ Failed(inv[p].answers[i])
                        /\ inv[p].args.compose_exists
                        /\ Answered(p, "endpoints", "ok")
                        /\ ~ inv[p].resolution.raised
                        /\ Answered(p, "list_stacks", "ok")
                        /\ MutationOk(p)
                        /\ \A i \in CallsOf(p, "services") : ~ Failed(inv[p].answers[i])
                        /\ inv[p].args.no_validate \/ inv[p].verdict = "true" )
            /\ inv[p].verdict = "false" => (inv[p].exit_code = 1 /\ MutationOk(p))

\* A deploy that created the stack and then ended with status 1 because the
\* services did not become healthy in time.
C12_Witness ==
    \E p \in Procs :
        /\ inv[p].args.command = "deploy"
        /\ inv[p].pc = "exit" /\ inv[p].exit_code = 1
        /\ inv[p].verdict = "false"
        /\ Answered(p, "create", "ok")
        /\ inv[p].polls >= 2

\* C13: Waiting-For-Services.  A poll that returns an empty list does not
\* return true: the validator stays in the loop, having slept one interval
\* (the clock is at least 5 later).  While elapsed time < timeout the next
\* step of the loop is a poll; once it is >= timeout the loop returns false
\* without polling.  Hence while every poll so far was empty the verdict is
\* never true, and when validate_deployment then returns it returns false
\* with the timeout elapsed.
C13_WaitingForServices ==
    /\ [](\A p \in Procs :
            inv[p].empties = inv[p].polls =>
                /\ inv[p].verdict # "true"
                /\ inv[p].pc = "validated"
                      => /\ inv[p].verdict = "false"
                         /\ inv[p].now - inv[p].start_time >= inv[p].timeout)
    /\ [][\A p \in Procs :
            /\ inv'[p].empties = inv[p].empties + 1
                  => /\ inv'[p].pc = "validate"
                     /\ inv'[p].verdict = "none"
                     /\ inv'[p].polls = inv[p].polls + 1
                     /\ inv'[p].sleeps = inv[p].sleeps + 1
                     /\ inv'[p].now >= inv[p].now + SleepInterval
            /\ (inv[p].pc = "validate" /\ inv'[p] # inv[p])
                  => IF inv[p].now - inv[p].start_time < inv[p].timeout
                     THEN inv'[p].polls = inv[p].polls + 1
                     ELSE /\ inv'[p].polls = inv[p].polls
                          /\ inv'[p].verdict = "false"
                          /\ inv'[p].pc = "validated"]_vars

\* validate_deployment(timeout = 11) returning false after three polls that
\* all found no service.
C13_Witness ==
    \E p \in Procs :
        /\ inv[p].pc = "validated" /\ inv[p].verdict = "false"
        /\ inv[p].timeout = 11
        /\ inv[p].polls = 3 /\ inv[p].empties = 3 /\ inv[p].sleeps = 3

\* C14: non-atomic list-then-act.  Each invocation decides on the list it
\* read itself, whatever the registry holds by now; an invocation waiting to
\* list is never held back by another one that has listed and not yet
\* mutated (no lock); and an invocation on the create path that moves on has
\* sent its create call for its (name, endpoint), whether or not the
\* registry has gained that stack in the meantime (no re-check).  So nothing
\* excludes two creates for one (name, endpoint).
C14_ListThenActRace ==
    /\ [](\A p \in Procs :
            /\ inv[p].branch # "none"
                  => (inv[p].branch = "create"
                        <=> Matches(inv[p].listed, inv[p].args.stack_name,
                                    inv[p].endpoint_id) = {})
            /\ inv[p].pc = "list_stacks" => ENABLED ListStacks(p, "ok"))
    /\ [][\A p \in Procs :
            (inv[p].pc = "create" /\ inv'[p] # inv[p])
                => /\ Len(inv'[p].calls) = Len(inv[p].calls) + 1
                   /\ inv'[p].calls[Len(inv'[p].calls)].op = "create"
                   /\ inv'[p].calls[Len(inv'[p].calls)].args.name
                          = inv[p].args.stack_name
                   /\ inv'[p].calls[Len(inv'[p].calls)].args.endpointId
                          = inv[p].endpoint_id]_vars

\* Both invocations listed a registry without the stack, both sent a create
\* for the same (name, endpoint), both creates were accepted, and the
\* registry now holds the stack twice.
C14_Witness ==
    /\ inv["A"].args.stack_name = inv["B"].args.stack_name
    /\ inv["A"].endpoint_id = inv["B"].endpoint_id
    /\ \A p \in Procs :
          /\ inv[p].args.command = "deploy"
          /\ Matches(inv[p].listed, inv[p].args.stack_name, inv[p].endpoint_id) = {}
          /\ Answered(p, "create", "ok")
    /\ Cardinality(Matches(stacks, inv["A"].args.stack_name, inv["A"].endpoint_id)) = 2

\* C15: create is scoped by a preceding cluster-identity lookup.  Every
\* create call is immediately preceded, in the same invocation, by a swarm-id
\* lookup for the same endpoint id that succeeded; the invocation made that
\* one lookup only; the ID the lookup returned is the swarmID of the create
\* payload; and after a failed lookup there is no create call.
C15_CreateAfterSwarmLookup ==
    \A p \in Procs :
        /\ \A i \in CallsOf(p, "create") :
              /\ i > 1
              /\ inv[p].calls[i - 1].op = "swarm"
              /\ inv[p].answers[i - 1] = "ok"
              /\ inv[p].calls[i - 1].args.endpoint_id = inv[p].calls[i].args.endpointId
              /\ inv[p].calls[i].args.swarmID = inv[p].calls[i - 1].args.ID
              /\ Cardinality(CallsOf(p, "swarm")) = 1
        /\ (\E i \in CallsOf(p, "swarm") : Failed(inv[p].answers[i]))
              => CallsOf(p, "create") = {}

\* A create sent with the ID the lookup answered, on the endpoint with
\* identifier 2.
C15_Witness ==
    \E p \in Procs :
        \E i \in CallsOf(p, "create") :
            /\ inv[p].calls[i].args.swarmID = "swarm-a"
            /\ inv[p].calls[i].args.endpointId = 2
            /\ inv[p].calls[i - 1].args.ID = "swarm-a"

\* C16: authentication failure is fatal and leaves the session untouched.
\* When the authentication request failed (no 2xx, or no connection),
\* authenticate has reported failure, the token is absent, the session has
\* no Authorization header, the authentication request is the only request
\* the invocation has sent, and the invocation has ended with status 1.
C16_AuthFailureFatal ==
    \A p \in Procs :
        Answered(p, "auth", "error") =>
            /\ inv[p].token = None
            /\ inv[p].authorization = << >>
            /\ Cardinality(CallsOf(p, "auth")) = 1
            /\ Len(inv[p].calls) = 1
            /\ inv[p].pc = "exit"
            /\ inv[p].exit_code = 1
            /\ inv[p].error = "authentication"

\* A delete whose authentication failed, in the second invocation, after a
\* first one that was let in.
C16_Witness ==
    \E p \in Procs :
        /\ inv[p].args.command = "delete"
        /\ Answered(p, "auth", "error")
        /\ inv[p].pc = "exit"
        /\ runs = 2
        /\ history # << >>

\* The remote calls of a deploy other than the validator's poll.
OnceOps == {"auth", "endpoints", "list_stacks", "swarm", "create", "update"}

\* C17: no retries outside the validator.  In one deploy invocation each of
\* authenticate, list-endpoints, list-stacks, swarm-id lookup, create and
\* update is issued at most once, never both a create and an update, and
\* exactly one of the two once the earlier stages have succeeded and the
\* mutation step is behind; every other call of the invocation is a
\* service-status poll.
C17_NoRetries ==
    \A p \in Procs :
        inv[p].args.command = "deploy" =>
            /\ \A op \in OnceOps : Cardinality(CallsOf(p, op)) <= 1
            /\ Cardinality(CallsOf(p, "create") \cup CallsOf(p, "update")) <= 1
            /\ ( /\ inv[p].branch # "none"
                 /\ inv[p].branch = "create" => Answered(p, "swarm", "ok")
                 /\ inv[p].pc \notin {"create", "update"} )
                  => Cardinality(CallsOf(p, "create") \cup CallsOf(p, "update")) = 1
            /\ \A i \in 1..Len(inv[p].calls) :
                  inv[p].calls[i].op \in OnceOps \cup {"services"}

\* A deploy that polled the services twice and sent every other call once,
\* the mutation being an update.
C17_Witness ==
    \E p \in Procs :
        /\ inv[p].args.command = "deploy"
        /\ Cardinality(CallsOf(p, "services")) = 2
        /\ Cardinality(CallsOf(p, "update")) = 1
        /\ Len(inv[p].calls) = 6

\* C18: the token is set exactly once.  Within one invocation (any step but
\* the start of a new process) the token changes only in authenticate, from
\* absent to present, and the Authorization header only there, from unset;
\* no later operation modifies or clears either.  A present token is the
\* one the invocation's single authentication request brought.
C18_TokenSetOnce ==
    /\ [](\A p \in Procs :
            inv[p].token # None
                => /\ Answered(p, "auth", "jwt")
                   /\ Cardinality(CallsOf(p, "auth")) = 1)
    /\ [][\A p \in Procs :
            runs' = runs =>
                /\ inv'[p].token # inv[p].token
                      => /\ inv[p].pc = "authenticate"
                         /\ inv[p].token = None
                         /\ inv'[p].token # None
                /\ inv'[p].authorization # inv[p].authorization
                      => /\ inv[p].pc = "authenticate"
                         /\ inv[p].authorization = << >>]_vars

\* A deploy that has resolved, listed, looked up the swarm id, created and
\* polled twice, its token still the one authentication set.
C18_Witness ==
    \E p \in Procs :
        /\ inv[p].token = "jwt"
        /\ inv[p].authorization = << "Bearer", "jwt" >>
        /\ Answered(p, "create", "ok")
        /\ Cardinality(CallsOf(p, "services")) = 2
        /\ inv[p].pc = "exit"

\* C19: validator termination.  With every poll answering and every sleep
\* advancing the clock by at least the interval, validate_deployment makes
\* at most ceil(timeout/5) polls whatever they return, and every call of it
\* ends: it returns true or false (or the poll's own exception leaves it).
C19_ValidatorTermination ==
    /\ [](\A p \in Procs :
            /\ inv[p].polls <= CeilDiv(inv[p].timeout, SleepInterval)
            /\ inv[p].pc = "validated" => inv[p].verdict \in {"true", "false"})
    /\ \A p \in Procs :
          inv[p].pc = "validate" ~> inv[p].pc \in {"validated", "raised"}

\* validate_deployment(timeout = 11) returning false after ceil(11/5) = 3
\* polls, of which some found no service and the last found an unhealthy one.
C19_Witness ==
    \E p \in Procs :
        /\ inv[p].pc = "validated" /\ inv[p].verdict = "false"
        /\ inv[p].timeout = 11 /\ inv[p].polls = 3
        /\ inv[p].empties \in {1, 2}
        /\ inv[p].services # << >>
        /\ inv[p].latency > 0

\* C20: delete is scoped to the resolved endpoint.  In every run of the
\* delete command the stack whose identifier goes to delete_stack is an entry
\* of the list read that has the requested name and whose EndpointId equals
\* the endpoint id sent with the call; at most one delete call is issued,
\* and none when the confirmation was declined or no stack matched.
C20_DeleteScoped ==
    \A p \in Procs :
        inv[p].args.command = "delete" =>
            /\ Cardinality(CallsOf(p, "delete")) <= 1
            /\ \A i \in CallsOf(p, "delete") :
                  /\ inv[p].args.yes \/ inv[p].args.answer = "Y"
                  /\ \E k \in 1..Len(inv[p].listed) :
                        /\ inv[p].listed[k].Id = inv[p].calls[i].args.stack_id
                        /\ inv[p].listed[k].Name = inv[p].args.stack_name
                        /\ inv[p].listed[k].EndpointId
                              = inv[p].calls[i].args.endpointId

====
